---- MODULE Spec2Model ----
(***************************************************************************)
(* Model of awscli/customizations/datapipeline/__init__.py: the list-runs  *)
(* command (argument parsing, query construction, the two service calls,   *)
(* normalisation, sorting, table output) and the two hooks that translate  *)
(* pipeline definitions.                                                   *)
(*                                                                         *)
(* Python values are represented as follows.  A str is a sequence of       *)
(* one-character strings.  None is the value None below, which is no str.  *)
(* A list is a sequence.  A dict whose iteration order is never observed   *)
(* is a function on its key set; a dict whose order is observed is a       *)
(* sequence of <<key, value>> entries in insertion order.                  *)
(***************************************************************************)
EXTENDS Integers, Sequences, FiniteSets, TLC

VARIABLES
    pc,             \* position of the invocation / of the function under analysis
    py3,            \* TRUE: the interpreter orders values as Python 3; FALSE: Python 2
    argv,           \* the command-line arguments as given (never changed)
    current_time,   \* datetime.utcnow() as QueryArgBuilder reads it
    parsed_args,    \* the argparse namespace of list-runs
    query,          \* the query built by build_query
    calls,          \* the calls made to the service and to the formatter, in order
    object_ids,     \* the 'ids' returned by QueryObjects
    objects,        \* api_describe_objects, the 'pipelineObjects' of DescribeObjects
    sort_key_func,  \* the sort_key_func argument of convert_described_objects
    converted,      \* the list returned by convert_described_objects
    stream,         \* the strings written to the formatter's stream, in order
    api_response,   \* the GetPipelineDefinition response as received (never changed)
    parsed,         \* the parsed response that translate_definition rewrites
    arg_value,      \* the --pipeline-definition argument given to add_to_params
    parameters,     \* the parameters of the put-pipeline-definition call
    error           \* the exception that ended the invocation, NoError if none

vars == <<pc, py3, argv, current_time, parsed_args, query, calls, object_ids, objects,
          sort_key_func, converted, stream, api_response, parsed, arg_value,
          parameters, error>>

\* The variables only the definition hooks use.
definitionVars == <<api_response, parsed, arg_value, parameters>>

\* The variables only the list-runs invocation uses.
invocationVars == <<argv, current_time, parsed_args, query, calls, object_ids>>

----------------------------------------------------------------------------
(* Bounds of the model.                                                    *)

\* longest sequence of described objects handed to convert_described_objects
MaxObjs == 2

\* most objects in a pipeline definition
MaxApiObjs == 2

\* longest sequence of records handed to display_objects_to_user on its own
MaxRows == 2

\* most comma-separated tokens in a --status argument
MaxTokens == 2

----------------------------------------------------------------------------
(* Python primitives.                                                      *)

None == <<"None">>

NoError == [type |-> "none", msg |-> <<>>]

\* The characters of the model in code-point order.
Alphabet ==
    <<"\t", " ", ",", "-", ".", "0", "1", "2", "3", "4", "5", "6", "7", "8",
      "9", ":", "@", "D", "E", "F", "I", "N", "P", "S", "T", "_", "a", "b",
      "c", "d", "e", "f", "g", "h", "i", "j", "k", "l", "m", "n", "o", "p",
      "q", "r", "s", "t", "u", "v", "w", "x", "y", "z">>

Ord(c) == CHOOSE i \in 1..Len(Alphabet) : Alphabet[i] = c

\* str.__lt__: lexicographic on code points, a proper prefix is smaller.
StrLess(a, b) ==
    \E i \in 1..Len(b) :
        /\ \A j \in 1..(i - 1) : j <= Len(a) /\ a[j] = b[j]
        /\ \/ i = Len(a) + 1
           \/ i <= Len(a) /\ Ord(a[i]) < Ord(b[i])

\* dict.get(key, default)
Get(d, key, default) == IF key \in DOMAIN d THEN d[key] ELSE default

\* d[key] = value
Put(d, key, value) == (key :> value) @@ d

\* The decimal digits of a natural number, as %d and strftime write them.
DigitChars == <<"0", "1", "2", "3", "4", "5", "6", "7", "8", "9">>

RECURSIVE Decimal(_)
Decimal(n) ==
    IF n < 10 THEN <<DigitChars[n + 1]>>
    ELSE Decimal(n \div 10) \o <<DigitChars[(n % 10) + 1]>>

K_id == <<"@", "i", "d">>
K_name == <<"n", "a", "m", "e">>
K_scheduledStartTime ==
    <<"@", "s", "c", "h", "e", "d", "u", "l", "e", "d", "S", "t", "a", "r",
      "t", "T", "i", "m", "e">>

----------------------------------------------------------------------------
(* Ordering of sort keys and list.sort.                                    *)

\* a < b for two values that are each a str or None.  Python 2 orders None
\* before every str; Python 3 raises TypeError (see CmpRaises).
ValLess(a, b) ==
    IF a = None THEN b # None
    ELSE b # None /\ StrLess(a, b)

\* tuple.__lt__: the first position where the items differ decides.
TupleLess(k1, k2) ==
    IF k1[1] # k2[1] THEN ValLess(k1[1], k2[1])
    ELSE IF k1[2] # k2[2] THEN ValLess(k1[2], k2[2])
    ELSE FALSE

\* Comparing the two keys raises TypeError: under Python 3 the items that
\* decide the comparison are None and a str.
CmpRaises(k1, k2) ==
    /\ py3
    /\ IF k1[1] # k2[1] THEN (k1[1] = None) # (k2[1] = None)
       ELSE IF k1[2] # k2[2] THEN (k1[2] = None) # (k2[2] = None)
       ELSE FALSE

\* The sort key _list_runs passes: (x.get('@scheduledStartTime'), x.get('name')).
ListRunsSortKey(x) ==
    <<Get(x, K_scheduledStartTime, None), Get(x, K_name, None)>>

\* Mutant of InsertByKey: x goes in front of the records with an equal key.
InsertByKey_unstable(s, x) ==
    LET after == {i \in 1..Len(s) :
                     ~TupleLess(ListRunsSortKey(s[i]), ListRunsSortKey(x))}
        pos == IF after = {} THEN Len(s) + 1
               ELSE CHOOSE i \in after : \A j \in after : i <= j
    IN  SubSeq(s, 1, pos - 1) \o <<x>> \o SubSeq(s, pos, Len(s))

\* Insert record x into the sorted list s behind every record whose key is
\* not greater than that of x (the sort is stable).
InsertByKey(s, x) ==
    LET after == {i \in 1..Len(s) :
                     TupleLess(ListRunsSortKey(x), ListRunsSortKey(s[i]))}
        pos == IF after = {} THEN Len(s) + 1
               ELSE CHOOSE i \in after : \A j \in after : i <= j
    IN  SubSeq(s, 1, pos - 1) \o <<x>> \o SubSeq(s, pos, Len(s))

RECURSIVE SortedByKey(_)
SortedByKey(s) ==
    IF s = <<>> THEN <<>>
    ELSE InsertByKey(SortedByKey(SubSeq(s, 1, Len(s) - 1)), s[Len(s)])

\* list.sort(key=...) cannot complete without comparing two keys that are
\* neighbours in the result, so it raises as soon as two keys of the list
\* cannot be compared.
SortRaises(s) ==
    \E i, j \in 1..Len(s) :
        CmpRaises(ListRunsSortKey(s[i]), ListRunsSortKey(s[j]))

----------------------------------------------------------------------------
(* convert_described_objects                                               *)

\* Mutant of FieldValue: refValue takes precedence over stringValue.
FieldValue_refFirst(field) ==
    Get(field, "refValue", Get(field, "stringValue", None))

\* field.get('stringValue', field.get('refValue'))
FieldValue(field) ==
    Get(field, "stringValue", Get(field, "refValue", None))

\* The loop over obj['fields']: later fields overwrite earlier ones.
RECURSIVE AddFields(_, _)
AddFields(new_fields, fields) ==
    IF fields = <<>> THEN new_fields
    ELSE AddFields(Put(new_fields, Head(fields).key, FieldValue(Head(fields))),
                   Tail(fields))

NewFields(obj) ==
    AddFields(Put(Put(<<>>, K_id, obj.id), K_name, obj.name), obj.fields)

\* The result of the call: the exception it raises, or the list it returns.
convert_described_objects(api_describe_objects, key_func) ==
    LET unsorted == [i \in 1..Len(api_describe_objects) |->
                        NewFields(api_describe_objects[i])]
    IN  IF key_func = "None"
        THEN [exc |-> NoError, value |-> unsorted]
        ELSE IF SortRaises(unsorted)
        THEN [exc |-> [type |-> "TypeError", msg |-> <<>>], value |-> <<>>]
        ELSE [exc |-> NoError, value |-> SortedByKey(unsorted)]

----------------------------------------------------------------------------
(* Argument values and str methods used by _parse_type_args.               *)

\* A command-line argument is None, a str, or (once parsed) a list of str.
ArgNone == [t |-> "None", v |-> <<>>]
ArgStr(s) == [t |-> "str", v |-> s]
ArgList(l) == [t |-> "list", v |-> l]

Whitespace == {" ", "\t", "\n"}

RECURSIVE lstrip(_)
lstrip(s) ==
    IF s # <<>> /\ Head(s) \in Whitespace THEN lstrip(Tail(s)) ELSE s

RECURSIVE rstrip(_)
rstrip(s) ==
    IF s # <<>> /\ s[Len(s)] \in Whitespace
    THEN rstrip(SubSeq(s, 1, Len(s) - 1)) ELSE s

\* str.strip()
strip(s) == rstrip(lstrip(s))

\* str.split(','): one more part than there are commas, parts may be empty
RECURSIVE split(_)
split(s) ==
    LET commas == {i \in 1..Len(s) : s[i] = ","}
    IN  IF commas = {} THEN <<s>>
        ELSE LET i == CHOOSE c \in commas : \A d \in commas : c <= d
             IN  <<SubSeq(s, 1, i - 1)>> \o split(SubSeq(s, i + 1, Len(s)))

\* sep.join(parts)
RECURSIVE join(_, _)
join(sep, parts) ==
    IF parts = <<>> THEN <<>>
    ELSE IF Len(parts) = 1 THEN parts[1]
    ELSE parts[1] \o sep \o join(sep, Tail(parts))

\* Mutant of SplitStrip: the parts are not stripped.
SplitStrip_noStrip(s) == split(s)

\* [arg.strip() for arg in s.split(',')]
SplitStrip(s) ==
    LET parts == split(s) IN [i \in 1..Len(parts) |-> strip(parts[i])]

VALID_STATUS ==
    << <<"w", "a", "i", "t", "i", "n", "g">>,
       <<"p", "e", "n", "d", "i", "n", "g">>,
       <<"c", "a", "n", "c", "e", "l", "l", "e", "d">>,
       <<"r", "u", "n", "n", "i", "n", "g">>,
       <<"f", "i", "n", "i", "s", "h", "e", "d">>,
       <<"f", "a", "i", "l", "e", "d">>,
       <<"w", "a", "i", "t", "i", "n", "g", "_", "f", "o", "r", "_", "r", "u",
         "n", "n", "e", "r">>,
       <<"w", "a", "i", "t", "i", "n", "g", "_", "o", "n", "_", "d", "e", "p",
         "e", "n", "d", "e", "n", "c", "i", "e", "s">> >>

InList(x, l) == \E i \in 1..Len(l) : l[i] = x

\* "Invalid status: %s, must be one of: %s" % (status, ', '.join(VALID_STATUS))
InvalidStatusMessage(status) ==
    <<"I", "n", "v", "a", "l", "i", "d", " ", "s", "t", "a", "t", "u", "s",
      ":", " ">>
        \o status
        \o <<",", " ", "m", "u", "s", "t", " ", "b", "e", " ", "o", "n", "e",
             " ", "o", "f", ":", " ">>
        \o join(<<",", " ">>, VALID_STATUS)

\* Mutant of _validate_status_choices: only the first status is validated.
validate_status_first_only(statuses) ==
    IF InList(statuses[1], VALID_STATUS) THEN NoError
    ELSE [type |-> "ValueError", msg |-> InvalidStatusMessage(statuses[1])]

\* _validate_status_choices: the ValueError for the first status that is
\* not in VALID_STATUS, NoError if there is none.
_validate_status_choices(statuses) ==
    LET bad == {i \in 1..Len(statuses) : ~InList(statuses[i], VALID_STATUS)}
    IN  IF bad = {} THEN NoError
        ELSE [type |-> "ValueError",
              msg |-> InvalidStatusMessage(
                          statuses[CHOOSE i \in bad : \A j \in bad : i <= j])]

ParsedArg(arg) == IF arg.t = "None" THEN arg ELSE ArgList(SplitStrip(arg.v))

\* _parse_type_args: the namespace as the method leaves it (the three
\* arguments are replaced before the statuses are validated) and the
\* exception it raises.
_parse_type_args(args) ==
    LET new == [args EXCEPT !.start_interval = ParsedArg(@),
                            !.schedule_interval = ParsedArg(@),
                            !.status = ParsedArg(@)]
    IN  [args |-> new,
         exc |-> IF new.status.t = "None" THEN NoError
                 ELSE _validate_status_choices(new.status.v)]

----------------------------------------------------------------------------
(* QueryArgBuilder                                                         *)

\* A datetime is [ordinal, second]: the proleptic Gregorian ordinal of the
\* day (1 = 0001-01-01) and the second of the day; strftime's format has no
\* microseconds.
DAYS_IN_MONTH == <<31, 28, 31, 30, 31, 30, 31, 31, 30, 31, 30, 31>>

RECURSIVE DaysBeforeMonth(_)
DaysBeforeMonth(month) ==
    IF month = 1 THEN 0
    ELSE DaysBeforeMonth(month - 1) + DAYS_IN_MONTH[month - 1]

\* datetime._ord2ymd: year, month and day of an ordinal
Ord2Ymd(ordinal) ==
    LET n0 == ordinal - 1
        n400 == n0 \div 146097
        r400 == n0 % 146097
        n100 == r400 \div 36524
        r100 == r400 % 36524
        n4 == r100 \div 1461
        r4 == r100 % 1461
        n1 == r4 \div 365
        n == r4 % 365
        year == n400 * 400 + 1 + n100 * 100 + n4 * 4 + n1
        leapyear == n1 = 3 /\ (n4 # 24 \/ n100 = 3)
        Before(m) == DaysBeforeMonth(m) + (IF m > 2 /\ leapyear THEN 1 ELSE 0)
        guess == (n + 50) \div 32
        month == IF Before(guess) > n THEN guess - 1 ELSE guess
    IN  IF n1 = 4 \/ n100 = 4
        THEN [year |-> year - 1, month |-> 12, day |-> 31]
        ELSE [year |-> year, month |-> month, day |-> n - Before(month) + 1]

\* "%0wd": decimal padded with zeros on the left to w digits
ZeroPadded(n, w) ==
    LET t == Decimal(n)
    IN  IF Len(t) >= w THEN t ELSE [i \in 1..(w - Len(t)) |-> "0"] \o t

\* datetime.strftime('%Y-%m-%dT%H:%M:%S')
Strftime(dt) ==
    LET ymd == Ord2Ymd(dt.ordinal)
    IN  ZeroPadded(ymd.year, 4) \o <<"-">> \o ZeroPadded(ymd.month, 2)
            \o <<"-">> \o ZeroPadded(ymd.day, 2) \o <<"T">>
            \o ZeroPadded(dt.second \div 3600, 2) \o <<":">>
            \o ZeroPadded((dt.second % 3600) \div 60, 2) \o <<":">>
            \o ZeroPadded(dt.second % 60, 2)

\* dt - timedelta(days=days)
MinusDays(dt, days) == [dt EXCEPT !.ordinal = @ - days]

F_actualStartTime ==
    <<"@", "a", "c", "t", "u", "a", "l", "S", "t", "a", "r", "t", "T", "i",
      "m", "e">>
F_scheduleStartTime ==
    <<"@", "s", "c", "h", "e", "d", "u", "l", "e", "S", "t", "a", "r", "t",
      "T", "i", "m", "e">>
F_status == <<"@", "s", "t", "a", "t", "u", "s">>

Selector(fieldName, type, values) ==
    [fieldName |-> fieldName, operator |-> [type |-> type, values |-> values]]

IndexError == [type |-> "IndexError", msg |-> <<>>]

\* Mutant of BetweenSelector: the whole parsed list becomes the values.
BetweenSelector_wholeList(fieldName, interval) ==
    <<Selector(fieldName, "BETWEEN", interval)>>

\* The selector _build_schedule_times appends for one interval: its first
\* two elements are the values (interval[1] of Python is checked by the
\* caller, see IntervalRaises).
BetweenSelector(fieldName, interval) ==
    <<Selector(fieldName, "BETWEEN", <<interval[1], interval[2]>>)>>

\* interval[0] / interval[1] raise IndexError on a list that is too short.
IntervalRaises(arg) == arg.t = "list" /\ Len(arg.v) < 2

\* Mutant of _build_schedule_times: the schedule selector comes first.
_build_schedule_times_swapped(args) ==
    IF IntervalRaises(args.start_interval)
        \/ IntervalRaises(args.schedule_interval)
    THEN [exc |-> IndexError, selectors |-> <<>>]
    ELSE [exc |-> NoError,
          selectors |->
              (IF args.schedule_interval.t # "None"
               THEN BetweenSelector(F_scheduleStartTime, args.schedule_interval.v)
               ELSE <<>>)
              \o (IF args.start_interval.t # "None"
                  THEN BetweenSelector(F_actualStartTime, args.start_interval.v)
                  ELSE <<>>)]

\* _build_schedule_times: the selectors it appends, or the exception.
_build_schedule_times(args) ==
    IF IntervalRaises(args.start_interval)
        \/ IntervalRaises(args.schedule_interval)
    THEN [exc |-> IndexError, selectors |-> <<>>]
    ELSE [exc |-> NoError,
          selectors |->
              (IF args.start_interval.t # "None"
               THEN BetweenSelector(F_actualStartTime, args.start_interval.v)
               ELSE <<>>)
              \o (IF args.schedule_interval.t # "None"
                  THEN BetweenSelector(F_scheduleStartTime,
                                       args.schedule_interval.v)
                  ELSE <<>>)]

\* _build_status: the selector it appends
_build_status(args) == <<Selector(F_status, "EQ", args.status.v)>>

\* build_query of a QueryArgBuilder whose current_time is now: the query it
\* returns, or the exception it raises.
build_query(args, now) ==
    LET times ==
            IF args.start_interval.t = "None"
                /\ args.schedule_interval.t = "None"
            THEN [exc |-> NoError,
                  selectors |->
                      <<Selector(F_actualStartTime, "BETWEEN",
                                 <<Strftime(MinusDays(now, 4)), Strftime(now)>>)>>]
            ELSE _build_schedule_times(args)
        status == IF args.status.t # "None" THEN _build_status(args) ELSE <<>>
    IN  IF times.exc # NoError THEN [exc |-> times.exc, value |-> ArgNone]
        ELSE [exc |-> NoError,
              value |-> [selectors |-> times.selectors \o status]]

----------------------------------------------------------------------------
(* Inputs of a list-runs invocation that the model draws from.             *)

S_running == <<"r", "u", "n", "n", "i", "n", "g">>
S_failed_padded == <<" ", "f", "a", "i", "l", "e", "d">>
S_bogus == <<"b", "o", "g", "u", "s">>
S_df_1 == <<"d", "f", "-", "1">>

\* The tokens a --status argument is made of: two valid statuses (one with
\* leading whitespace), an invalid one, and the empty token.
StatusTokens == {S_running, S_failed_padded, S_bogus, <<>>}

\* --status: not given, or up to MaxTokens tokens joined by commas.
StatusInputs ==
    {ArgNone}
        \cup {ArgStr(join(<<",">>, tokens)) :
                 tokens \in UNION {[1..k -> StatusTokens] : k \in 1..MaxTokens}}

\* --start-interval / --schedule-interval: not given, two bounds, two bounds
\* with whitespace, one bound, three bounds.
IntervalInputs ==
    { ArgNone,
      ArgStr(<<"1", ",", "2">>),
      ArgStr(<<" ", "1", " ", ",", " ", "2">>),
      ArgStr(<<"1">>),
      ArgStr(<<"1", ",", "2", ",", "3">>) }

\* Values of datetime.utcnow(): 2024-01-10T00:00:00, 2024-03-02T12:34:56
\* (four days back crosses the leap day), 2023-01-03T23:59:59 (four days
\* back crosses the year).
NowChoices ==
    { [ordinal |-> 738895, second |-> 0],
      [ordinal |-> 738947, second |-> 45296],
      [ordinal |-> 738523, second |-> 86399] }

\* The definition hooks' variables while they are not analysed.
NoDefinition ==
    /\ api_response = <<>>
    /\ parsed = <<>>
    /\ arg_value = ArgNone
    /\ parameters = <<>>

\* The invocation's variables while a function is analysed on its own.
NoInvocation ==
    /\ current_time = [ordinal |-> 738895, second |-> 0]
    /\ parsed_args = [pipeline_id |-> ArgStr(S_df_1), status |-> ArgNone,
                      start_interval |-> ArgNone,
                      schedule_interval |-> ArgNone]
    /\ argv = parsed_args
    /\ query = ArgNone
    /\ calls = <<>>
    /\ object_ids = <<>>

----------------------------------------------------------------------------
(* Described objects that the model draws from.                            *)

S_a == <<"a">>
S_b == <<"b">>
S_1 == <<"1">>
S_2 == <<"2">>

\* Field lists of a described object: none; a scheduled start time carried
\* as stringValue, as refValue, as both, as neither; the same key twice.
DescribedFieldLists ==
    { <<>>,
      <<[key |-> K_scheduledStartTime, stringValue |-> S_1]>>,
      <<[key |-> K_scheduledStartTime, stringValue |-> S_2]>>,
      <<[key |-> K_scheduledStartTime, refValue |-> S_1]>>,
      <<[key |-> K_scheduledStartTime, stringValue |-> S_2, refValue |-> S_1]>>,
      <<[key |-> K_scheduledStartTime]>>,
      <<[key |-> K_scheduledStartTime, stringValue |-> S_2],
        [key |-> K_scheduledStartTime, stringValue |-> S_1]>> }

DescribedObjects ==
    [id : {S_1, S_2}, name : {S_a, S_b}, fields : DescribedFieldLists]

SeqsUpTo(S, n) == UNION {[1..k -> S] : k \in 0..n}

\* The permutations of 1..n.
IndexPermutations(n) ==
    {p \in [1..n -> 1..n] : \A i, j \in 1..n : p[i] = p[j] => i = j}

----------------------------------------------------------------------------
(* SpecConvert: convert_described_objects applied to any argument.         *)

InitConvert ==
    /\ pc = "call"
    /\ NoInvocation
    /\ NoDefinition
    /\ py3 \in BOOLEAN
    /\ objects \in SeqsUpTo(DescribedObjects, MaxObjs)
    /\ sort_key_func \in {"None", "list_runs"}
    /\ converted = <<>>
    /\ stream = <<>>
    /\ error = NoError

ConvertCall ==
    /\ pc = "call"
    /\ LET r == convert_described_objects(objects, sort_key_func)
       IN  /\ pc' = IF r.exc = NoError THEN "returned" ELSE "raised"
           /\ converted' = r.value
           /\ error' = r.exc
    /\ UNCHANGED <<py3, objects, sort_key_func, stream, invocationVars,
                   definitionVars>>

NextConvert == ConvertCall

SpecConvert == InitConvert /\ [][NextConvert]_vars

----------------------------------------------------------------------------
(* ListRunsFormatter                                                       *)

K_componentParent ==
    <<"@", "c", "o", "m", "p", "o", "n", "e", "n", "t", "P", "a", "r", "e",
      "n", "t">>
K_status == <<"@", "s", "t", "a", "t", "u", "s">>
K_actualStartTime ==
    <<"@", "a", "c", "t", "u", "a", "l", "S", "t", "a", "r", "t", "T", "i",
      "m", "e">>
K_actualEndTime ==
    <<"@", "a", "c", "t", "u", "a", "l", "E", "n", "d", "T", "i", "m", "e">>

Spaces(n) == [i \in 1..n |-> " "]

\* str(value), as the %s conversion applies it
Str(value) == IF value = None THEN <<"N", "o", "n", "e">> ELSE value

\* "%-w.ws" % value: cut to w characters, then padded on the right to w
FmtS(value, w) ==
    LET t == Str(value)
    IN  IF Len(t) >= w THEN SubSeq(t, 1, w) ELSE t \o Spaces(w - Len(t))

\* "%4d" % n: padded on the left to 4 characters, never cut
FmtD4(n) ==
    LET t == Decimal(n)
    IN  IF Len(t) >= 4 THEN t ELSE Spaces(4 - Len(t)) \o t

TITLE_ROW_FORMAT_STRING(a, b, c) ==
    Spaces(7) \o FmtS(a, 50) \o Spaces(2) \o FmtS(b, 19) \o Spaces(2)
        \o FmtS(c, 23)

FIRST_ROW_FORMAT_STRING(n, a, b, c) ==
    FmtD4(n) \o <<".", " ", " ">> \o FmtS(a, 50) \o Spaces(2) \o FmtS(b, 19)
        \o Spaces(2) \o FmtS(c, 23)

SECOND_ROW_FORMAT_STRING(a, b, c) ==
    Spaces(7) \o FmtS(a, 50) \o Spaces(2) \o FmtS(b, 19) \o Spaces(2)
        \o FmtS(c, 19)

\* The strings _print_headers writes.
PrintHeaders ==
    LET second_row == SECOND_ROW_FORMAT_STRING(
                          <<"I", "D">>,
                          <<"S", "t", "a", "r", "t", "e", "d">>,
                          <<"E", "n", "d", "e", "d">>)
    IN  << TITLE_ROW_FORMAT_STRING(
               <<"N", "a", "m", "e">>,
               <<"S", "c", "h", "e", "d", "u", "l", "e", "d", " ", "S", "t",
                 "a", "r", "t">>,
               <<"S", "t", "a", "t", "u", "s">>),
           <<"\n">>,
           second_row,
           <<"\n">>,
           [i \in 1..Len(second_row) |-> "-"],
           <<"\n">> >>

KeyError(key) == [type |-> "KeyError", msg |-> key]

\* Mutant of PrintRow: the row is numbered with the 0-based index and an
\* absent status is shown as None.
PrintRow_mutant(index, obj) ==
    IF K_componentParent \notin DOMAIN obj
    THEN [exc |-> KeyError(K_componentParent), written |-> <<>>]
    ELSE IF K_id \notin DOMAIN obj
    THEN [exc |-> KeyError(K_id), written |-> <<>>]
    ELSE [exc |-> NoError,
          written |->
              << FIRST_ROW_FORMAT_STRING(
                     index, obj[K_componentParent],
                     Get(obj, K_scheduledStartTime, <<>>),
                     Get(obj, K_status, None)),
                 <<"\n">>,
                 SECOND_ROW_FORMAT_STRING(
                     obj[K_id], Get(obj, K_actualStartTime, <<>>),
                     Get(obj, K_actualEndTime, <<>>)),
                 <<"\n", "\n">> >>]

\* _print_row(index, obj): the exception it raises, or the strings it writes.
PrintRow(index, obj) ==
    IF K_componentParent \notin DOMAIN obj
    THEN [exc |-> KeyError(K_componentParent), written |-> <<>>]
    ELSE IF K_id \notin DOMAIN obj
    THEN [exc |-> KeyError(K_id), written |-> <<>>]
    ELSE [exc |-> NoError,
          written |->
              << FIRST_ROW_FORMAT_STRING(
                     index + 1, obj[K_componentParent],
                     Get(obj, K_scheduledStartTime, <<>>),
                     Get(obj, K_status, <<>>)),
                 <<"\n">>,
                 SECOND_ROW_FORMAT_STRING(
                     obj[K_id], Get(obj, K_actualStartTime, <<>>),
                     Get(obj, K_actualEndTime, <<>>)),
                 <<"\n", "\n">> >>]

\* The loop of display_objects_to_user from 0-based index i on: it stops at
\* the first row that raises, what was written before stays written.
RECURSIVE PrintRows(_, _)
PrintRows(objs, i) ==
    IF i >= Len(objs) THEN [exc |-> NoError, written |-> <<>>]
    ELSE LET row == PrintRow(i, objs[i + 1])
         IN  IF row.exc # NoError THEN row
             ELSE LET rest == PrintRows(objs, i + 1)
                  IN  [exc |-> rest.exc, written |-> row.written \o rest.written]

display_objects_to_user(objs) ==
    LET rows == PrintRows(objs, 0)
    IN  [exc |-> rows.exc, written |-> PrintHeaders \o rows.written]

----------------------------------------------------------------------------
(* SpecDisplay: display_objects_to_user applied to any list of records.    *)

Absent == <<"absent">>

Entry(key, value) == IF value = Absent THEN <<>> ELSE key :> value

S_Foo == <<"F", "o", "o">>
S_df_123 == <<"d", "f", "-", "1", "2", "3">>
S_finished == <<"f", "i", "n", "i", "s", "h", "e", "d">>
S_time == <<"2", "0", "2", "4", "-", "0", "1", "-", "1", "0", "T", "0", "0",
            ":", "0", "0", ":", "0", "0">>
S_time_millis ==
    <<"2", "0", "2", "4", "-", "0", "1", "-", "1", "0", "T", "0", "0", ":",
      "0", "0", ":", "0", "0", ".", "0", "0", "0">>

\* Records with every combination of the keys the formatter reads present
\* or absent; the end time is longer than its column.
DisplayRecords ==
    { Entry(K_componentParent, p) @@ Entry(K_id, i)
        @@ Entry(K_scheduledStartTime, s) @@ Entry(K_status, t)
        @@ Entry(K_actualStartTime, a) @@ Entry(K_actualEndTime, e) :
        p \in {Absent, S_Foo}, i \in {Absent, S_df_123},
        s \in {Absent, S_time}, t \in {Absent, S_finished},
        a \in {Absent, S_time}, e \in {Absent, S_time_millis} }

\* The formatter does not depend on the interpreter.
InitDisplay ==
    /\ pc = "call"
    /\ NoInvocation
    /\ NoDefinition
    /\ py3 = TRUE
    /\ objects = <<>>
    /\ sort_key_func = "None"
    /\ converted \in SeqsUpTo(DisplayRecords, MaxRows)
    /\ stream = <<>>
    /\ error = NoError

DisplayCall ==
    /\ pc = "call"
    /\ LET r == display_objects_to_user(converted)
       IN  /\ pc' = IF r.exc = NoError THEN "returned" ELSE "raised"
           /\ stream' = stream \o r.written
           /\ error' = r.exc
    /\ UNCHANGED <<py3, objects, sort_key_func, converted, invocationVars,
                   definitionVars>>

NextDisplay == DisplayCall

SpecDisplay == InitDisplay /\ [][NextDisplay]_vars

----------------------------------------------------------------------------
(* Spec: one invocation of list-runs (ListRunsCommand._run_main).          *)

\* The identifier lists QueryObjects can return: distinct identifiers.
IdLists ==
    {ids \in SeqsUpTo({S_1, S_2}, MaxObjs) :
        \A i, j \in 1..Len(ids) : ids[i] = ids[j] => i = j}

\* Field lists DescribeObjects returns for a run: complete, without a
\* scheduled start time, without @componentParent.
RunFieldLists ==
    { <<[key |-> K_componentParent, refValue |-> S_Foo],
        [key |-> K_scheduledStartTime, stringValue |-> S_time]>>,
      <<[key |-> K_componentParent, refValue |-> S_Foo]>>,
      <<[key |-> K_status, stringValue |-> S_finished]>> }

\* The answers DescribeObjects can give for ids: one object per identifier.
Descriptions(ids) ==
    {objs \in [1..Len(ids) -> [id : {S_1, S_2}, name : {S_a},
                               fields : RunFieldLists]] :
        \A i \in 1..Len(ids) : objs[i].id = ids[i]}

ServiceError(operation) == [type |-> "ServiceError", msg |-> operation]

Init ==
    /\ pc = "START"
    /\ py3 \in BOOLEAN
    /\ current_time \in NowChoices
    /\ parsed_args \in [pipeline_id : {ArgStr(S_df_1)},
                        status : StatusInputs,
                        start_interval : IntervalInputs,
                        schedule_interval : IntervalInputs]
    /\ argv = parsed_args
    /\ query = ArgNone
    /\ calls = <<>>
    /\ object_ids = <<>>
    /\ objects = <<>>
    /\ sort_key_func = "list_runs"
    /\ converted = <<>>
    /\ stream = <<>>
    /\ NoDefinition
    /\ error = NoError

\* _run_main up to the return of _parse_type_args.
ParseTypeArgs ==
    /\ pc = "START"
    /\ LET r == _parse_type_args(parsed_args)
       IN  /\ parsed_args' = r.args
           /\ error' = r.exc
           /\ pc' = IF r.exc = NoError THEN "ARGS_PARSED" ELSE "FAILED"
    /\ UNCHANGED definitionVars
    /\ UNCHANGED <<py3, argv, current_time, query, calls, object_ids, objects,
                   sort_key_func, converted, stream>>

\* _list_runs up to the call of QueryObjects: the query is built and, unless
\* build_query raised, handed to the paginator.
CallQueryObjects ==
    /\ pc = "ARGS_PARSED"
    /\ LET q == build_query(parsed_args, current_time)
       IN  IF q.exc # NoError
           THEN /\ pc' = "FAILED"
                /\ error' = q.exc
                /\ UNCHANGED <<query, calls>>
           ELSE /\ pc' = "QUERYING"
                /\ query' = q.value
                /\ calls' = Append(calls,
                                   [op |-> "QueryObjects",
                                    pipeline_id |-> parsed_args.pipeline_id.v,
                                    arg |-> q.value])
                /\ UNCHANGED error
    /\ UNCHANGED definitionVars
    /\ UNCHANGED <<py3, argv, current_time, parsed_args, object_ids, objects,
                   sort_key_func, converted, stream>>

\* build_full_result returns the complete list of identifiers.
QueryObjectsReturns ==
    /\ pc = "QUERYING"
    /\ \E ids \in IdLists : object_ids' = ids
    /\ pc' = "QUERIED"
    /\ UNCHANGED definitionVars
    /\ UNCHANGED <<py3, argv, current_time, parsed_args, query, calls, objects,
                   sort_key_func, converted, stream, error>>

\* The paginator raises: the exception leaves _run_main.
QueryObjectsFails ==
    /\ pc = "QUERYING"
    /\ pc' = "FAILED"
    /\ error' = ServiceError("QueryObjects")
    /\ UNCHANGED definitionVars
    /\ UNCHANGED <<py3, argv, current_time, parsed_args, query, calls, object_ids,
                   objects, sort_key_func, converted, stream>>

\* Mutant of CallDescribeObjects: only the first identifier is described.
CallDescribeObjects_firstOnly ==
    /\ pc = "QUERIED"
    /\ pc' = "DESCRIBING"
    /\ calls' = Append(calls,
                       [op |-> "DescribeObjects",
                        pipeline_id |-> parsed_args.pipeline_id.v,
                        arg |-> IF object_ids = <<>> THEN <<>>
                                ELSE <<object_ids[1]>>])
    /\ UNCHANGED definitionVars
    /\ UNCHANGED <<py3, argv, current_time, parsed_args, query, object_ids, objects,
                   sort_key_func, converted, stream, error>>

\* _describe_objects is called with the identifiers QueryObjects returned.
CallDescribeObjects ==
    /\ pc = "QUERIED"
    /\ pc' = "DESCRIBING"
    /\ calls' = Append(calls,
                       [op |-> "DescribeObjects",
                        pipeline_id |-> parsed_args.pipeline_id.v,
                        arg |-> object_ids])
    /\ UNCHANGED definitionVars
    /\ UNCHANGED <<py3, argv, current_time, parsed_args, query, object_ids, objects,
                   sort_key_func, converted, stream, error>>

DescribeObjectsReturns ==
    /\ pc = "DESCRIBING"
    /\ \E objs \in Descriptions(calls[Len(calls)].arg) : objects' = objs
    /\ pc' = "DESCRIBED"
    /\ UNCHANGED definitionVars
    /\ UNCHANGED <<py3, argv, current_time, parsed_args, query, calls, object_ids,
                   sort_key_func, converted, stream, error>>

DescribeObjectsFails ==
    /\ pc = "DESCRIBING"
    /\ pc' = "FAILED"
    /\ error' = ServiceError("DescribeObjects")
    /\ UNCHANGED definitionVars
    /\ UNCHANGED <<py3, argv, current_time, parsed_args, query, calls, object_ids,
                   objects, sort_key_func, converted, stream>>

\* The rest of _list_runs: the objects are converted and sorted and, unless
\* the sort raised, handed to the formatter, which writes the table.
ConvertAndDisplay ==
    /\ pc = "DESCRIBED"
    /\ LET c == convert_described_objects(objects, sort_key_func)
           d == display_objects_to_user(c.value)
       IN  IF c.exc # NoError
           THEN /\ pc' = "FAILED"
                /\ error' = c.exc
                /\ UNCHANGED <<converted, calls, stream>>
           ELSE /\ converted' = c.value
                /\ calls' = Append(calls,
                                   [op |-> "display_objects_to_user",
                                    pipeline_id |-> <<>>,
                                    arg |-> c.value])
                /\ stream' = stream \o d.written
                /\ error' = d.exc
                /\ pc' = IF d.exc = NoError THEN "FORMATTED" ELSE "FAILED"
    /\ UNCHANGED definitionVars
    /\ UNCHANGED <<py3, argv, current_time, parsed_args, query, object_ids, objects,
                   sort_key_func>>

Next ==
    \/ ParseTypeArgs
    \/ CallQueryObjects
    \/ QueryObjectsReturns
    \/ QueryObjectsFails
    \/ CallDescribeObjects
    \/ DescribeObjectsReturns
    \/ DescribeObjectsFails
    \/ ConvertAndDisplay

Spec == Init /\ [][Next]_vars

----------------------------------------------------------------------------
(* translator.api_to_definition and translator.definition_to_api.  The     *)
(* translator module is modelled from the design document, sections 4.1    *)
(* and 4.2, not from its source.  A definition object is                   *)
(* a sequence of [key, value] entries in insertion order; a value is       *)
(* [t |-> "str" | "ref" | "list", v |-> ...].                              *)

D_id == <<"i", "d">>
D_name == <<"n", "a", "m", "e">>

MalformedFieldError == [type |-> "MalformedFieldError", msg |-> <<>>]
UnsupportedValueTypeError == [type |-> "UnsupportedValueTypeError", msg |-> <<>>]
MissingRequiredKeyError == [type |-> "MissingRequiredKeyError", msg |-> <<>>]

\* FieldCodec.to_definition_entry
to_definition_entry(field) ==
    IF "refValue" \in DOMAIN field
    THEN [key |-> field.key, value |-> [t |-> "ref", v |-> field.refValue]]
    ELSE [key |-> field.key, value |-> [t |-> "str", v |-> field.stringValue]]

IsMalformed(field) ==
    "refValue" \notin DOMAIN field /\ "stringValue" \notin DOMAIN field

\* FieldCodec.to_api_field
to_api_field(key, val) ==
    IF val.t = "ref" THEN [key |-> key, refValue |-> val.v]
    ELSE [key |-> key, stringValue |-> val.v]

\* Add one entry to a definition object: a key that repeats accumulates its
\* values in a sequence.
AddEntry(entries, e) ==
    LET at == {i \in 1..Len(entries) : entries[i].key = e.key}
    IN  IF at = {} THEN Append(entries, e)
        ELSE [i \in 1..Len(entries) |->
                 IF i \notin at THEN entries[i]
                 ELSE IF entries[i].value.t = "list"
                 THEN [key |-> e.key,
                       value |-> [t |-> "list",
                                  v |-> Append(entries[i].value.v, e.value)]]
                 ELSE [key |-> e.key,
                       value |-> [t |-> "list",
                                  v |-> <<entries[i].value, e.value>>]]]

RECURSIVE AddEntries(_, _)
AddEntries(entries, fields) ==
    IF fields = <<>> THEN entries
    ELSE AddEntries(AddEntry(entries, to_definition_entry(Head(fields))),
                    Tail(fields))

DefinitionObject(obj) ==
    AddEntries(<<[key |-> D_id, value |-> [t |-> "str", v |-> obj.id]],
                 [key |-> D_name, value |-> [t |-> "str", v |-> obj.name]]>>,
               obj.fields)

\* DefinitionTranslator.api_to_definition
api_to_definition(api_objects) ==
    IF \E i \in 1..Len(api_objects) :
           \E n \in 1..Len(api_objects[i].fields) :
               IsMalformed(api_objects[i].fields[n])
    THEN [exc |-> MalformedFieldError, value |-> <<>>]
    ELSE [exc |-> NoError,
          value |-> [objects |-> [i \in 1..Len(api_objects) |->
                                     DefinitionObject(api_objects[i])]]]

\* The fields of one entry: one per element of a sequence, else one.
EntryFields(e) ==
    IF e.value.t = "list"
    THEN [n \in 1..Len(e.value.v) |-> to_api_field(e.key, e.value.v[n])]
    ELSE <<to_api_field(e.key, e.value)>>

RECURSIVE FieldsOf(_)
FieldsOf(entries) ==
    IF entries = <<>> THEN <<>>
    ELSE IF Head(entries).key \in {D_id, D_name} THEN FieldsOf(Tail(entries))
    ELSE EntryFields(Head(entries)) \o FieldsOf(Tail(entries))

ValueOf(entries, key) ==
    entries[CHOOSE i \in 1..Len(entries) : entries[i].key = key].value

HasKey(entries, key) == \E i \in 1..Len(entries) : entries[i].key = key

IsSupported(val) ==
    \/ val.t \in {"str", "ref"}
    \/ val.t = "list" /\ \A n \in 1..Len(val.v) : val.v[n].t \in {"str", "ref"}

\* DefinitionTranslator.definition_to_api
definition_to_api(document) ==
    LET objs == document.objects
    IN  IF \E i \in 1..Len(objs) :
               ~HasKey(objs[i], D_id) \/ ~HasKey(objs[i], D_name)
        THEN [exc |-> MissingRequiredKeyError, value |-> <<>>]
        ELSE IF \E i \in 1..Len(objs) :
                    \E n \in 1..Len(objs[i]) : ~IsSupported(objs[i][n].value)
        THEN [exc |-> UnsupportedValueTypeError, value |-> <<>>]
        ELSE [exc |-> NoError,
              value |-> [i \in 1..Len(objs) |->
                            [id |-> ValueOf(objs[i], D_id).v,
                             name |-> ValueOf(objs[i], D_name).v,
                             fields |-> FieldsOf(objs[i])]]]

----------------------------------------------------------------------------
(* The hooks of this module that call the translator.                      *)

\* dict.pop(key, None) leaves the dict without key
Without(d, key) == [k \in DOMAIN d \ {key} |-> d[k]]

\* Mutant of translate_definition: an empty object list is treated like an
\* absent one ("if not api_objects").
translate_definition_falsy(response) ==
    IF "pipelineObjects" \notin DOMAIN response
        \/ response.pipelineObjects = <<>>
    THEN [exc |-> NoError, parsed |-> Without(response, "pipelineObjects")]
    ELSE LET definition == api_to_definition(response.pipelineObjects)
         IN  IF definition.exc # NoError
             THEN [exc |-> definition.exc,
                   parsed |-> Without(response, "pipelineObjects")]
             ELSE [exc |-> NoError,
                   parsed |-> ("objects" :> definition.value.objects)
                                  @@ Without(response, "pipelineObjects")]

\* translate_definition: the parsed response as the hook leaves it, and the
\* exception the translator raised.
translate_definition(response) ==
    IF "pipelineObjects" \notin DOMAIN response
    THEN [exc |-> NoError, parsed |-> response]
    ELSE LET definition == api_to_definition(response.pipelineObjects)
         IN  IF definition.exc # NoError
             THEN [exc |-> definition.exc,
                   parsed |-> Without(response, "pipelineObjects")]
             ELSE [exc |-> NoError,
                   parsed |-> ("objects" :> definition.value.objects)
                                  @@ Without(response, "pipelineObjects")]

\* json.loads of the argument text: the text is represented by the
\* document it denotes.
json_loads(text) == text.v

\* PipelineDefinitionArgument.add_to_params
add_to_params(params, val) ==
    IF val = ArgNone THEN [exc |-> NoError, parameters |-> params]
    ELSE LET api_objects == definition_to_api(json_loads(val))
         IN  IF api_objects.exc # NoError
             THEN [exc |-> api_objects.exc, parameters |-> params]
             ELSE [exc |-> NoError,
                   parameters |-> ("pipeline_objects" :> api_objects.value)
                                      @@ params]

----------------------------------------------------------------------------
(* SpecTranslate: a definition is fetched (translate_definition) and the   *)
(* printed definition is passed back as --pipeline-definition.             *)

K_k == <<"k">>
K_m == <<"m">>

F_k_a == [key |-> K_k, stringValue |-> S_a]
F_k_ref_b == [key |-> K_k, refValue |-> S_b]
F_m_a == [key |-> K_m, stringValue |-> S_a]

\* Well-formed field lists (each field has exactly one of stringValue and
\* refValue): no field, one field, a key repeated with values of both
\* kinds, a repeated key with another key in between, the same field
\* twice, a key three times.
ApiFieldLists ==
    { <<>>,
      <<F_k_a>>,
      <<F_k_ref_b>>,
      <<F_m_a, F_k_a>>,
      <<F_k_a, F_k_ref_b>>,
      <<F_k_a, F_m_a, F_k_ref_b>>,
      <<F_k_a, F_k_a>>,
      <<F_k_ref_b, F_k_a, F_k_ref_b>> }

\* Object lists of a response: the object at position i has identifier i.
ApiObjectLists ==
    UNION { {[i \in 1..n |-> [id |-> Decimal(i),
                              name |-> <<"n">> \o Decimal(i),
                              fields |-> fl[i]]] :
                fl \in [1..n -> ApiFieldLists]} :
            n \in 0..MaxApiObjs }

\* A mapping that was written out and read back iterates its keys in
\* insertion order or, under an interpreter with unordered dicts, in
\* another order: the model takes the opposite order (the objects of the
\* model have at most two field keys, so both relative orders occur).
Reversed(entries) ==
    [i \in 1..Len(entries) |-> entries[Len(entries) + 1 - i]]

\* The texts that denote the document: its objects in order, the keys of
\* the objects in either order.
JsonTexts(document) ==
    { ArgStr(document),
      ArgStr([objects |-> [i \in 1..Len(document.objects) |->
                              Reversed(document.objects[i])]]) }

InitTranslate ==
    /\ pc = "response"
    /\ py3 = TRUE
    /\ NoInvocation
    /\ objects = <<>>
    /\ sort_key_func = "None"
    /\ converted = <<>>
    /\ stream = <<>>
    /\ api_response \in {[pipelineObjects |-> x] : x \in ApiObjectLists}
                            \cup {[Error |-> <<>>]}
    /\ parsed = api_response
    /\ arg_value = ArgNone
    /\ parameters = <<>>
    /\ error = NoError

\* after-call.datapipeline.GetPipelineDefinition
TranslateDefinition ==
    /\ pc = "response"
    /\ LET r == translate_definition(parsed)
       IN  /\ parsed' = r.parsed
           /\ error' = r.exc
           /\ pc' = IF r.exc = NoError THEN "translated" ELSE "raised"
    /\ UNCHANGED <<py3, objects, sort_key_func, converted, stream,
                   invocationVars, api_response, arg_value, parameters>>

\* put-pipeline-definition with the printed definition (or no definition).
AddToParams ==
    /\ pc = "translated"
    /\ \E val \in {ArgNone} \cup (IF "objects" \in DOMAIN parsed
                               THEN JsonTexts(parsed) ELSE {}) :
           LET r == add_to_params(parameters, val)
           IN  /\ arg_value' = val
               /\ parameters' = r.parameters
               /\ error' = r.exc
               /\ pc' = IF r.exc = NoError THEN "submitted" ELSE "raised"
    /\ UNCHANGED <<py3, objects, sort_key_func, converted, stream,
                   invocationVars, api_response, parsed>>

NextTranslate == TranslateDefinition \/ AddToParams

SpecTranslate == InitTranslate /\ [][NextTranslate]_vars

----------------------------------------------------------------------------
(* Claims about convert_described_objects (checked under SpecConvert).     *)

\* The records before the sort, in input order.
Normalized == convert_described_objects(objects, "None").value

SortKeys == {ListRunsSortKey(Normalized[i]) : i \in 1..Len(Normalized)}

\* The records of s whose sort key is k, in the order they have in s.
WithKey(s, k) ==
    LET Test(x) == ListRunsSortKey(x) = k IN SelectSeq(s, Test)

\* The records of s whose @scheduledStartTime (None when absent) is t.
WithStart(s, t) ==
    LET Test(x) == Get(x, K_scheduledStartTime, None) = t IN SelectSeq(s, Test)

NonDecreasing(s) ==
    \A i, j \in 1..Len(s) :
        i < j => ~TupleLess(ListRunsSortKey(s[j]), ListRunsSortKey(s[i]))

SortedCall == pc # "call" /\ sort_key_func = "list_runs"

\* C6: with the sort key (record's @scheduledStartTime, record's name),
\* convert_described_objects always returns (the ordering is total, also
\* when only some records lack @scheduledStartTime), and what it returns is
\* a permutation of the normalized records in non-decreasing key order in
\* which records with equal keys keep their original relative order.
C6_SortTotalAndStable ==
    SortedCall =>
        /\ pc = "returned"
        /\ Len(converted) = Len(Normalized)
        /\ NonDecreasing(converted)
        /\ \A k \in SortKeys : WithKey(converted, k) = WithKey(Normalized, k)

\* C7 as stated: after the sort, the records that share a @scheduledStartTime
\* are in their relative input order.
C7_Original ==
    (SortedCall /\ pc = "returned") =>
        \A k \in SortKeys :
            k[1] # None =>
                WithStart(converted, k[1]) = WithStart(Normalized, k[1])

\* C7 amended: after the sort, the records that share both
\* @scheduledStartTime and name are in their relative input order.
C7_StableOnEqualKeys ==
    (SortedCall /\ pc = "returned") =>
        \A k \in SortKeys : WithKey(converted, k) = WithKey(Normalized, k)

\* C7's case: two different records with the same key were sorted.
C7_Witness ==
    /\ SortedCall /\ pc = "returned"
    /\ \E i, j \in 1..Len(Normalized) :
           /\ i < j
           /\ Normalized[i] # Normalized[j]
           /\ ListRunsSortKey(Normalized[i]) = ListRunsSortKey(Normalized[j])
           /\ ListRunsSortKey(Normalized[i])[1] # None

HasNeither(field) ==
    "stringValue" \notin DOMAIN field /\ "refValue" \notin DOMAIN field

SomeFieldHasNeither ==
    \E i \in 1..Len(objects) :
        \E n \in 1..Len(objects[i].fields) : HasNeither(objects[i].fields[n])

\* What the claim says a field maps to; None when it has neither value.
ClaimedValue(field) ==
    IF "stringValue" \in DOMAIN field THEN field.stringValue
    ELSE IF "refValue" \in DOMAIN field THEN field.refValue
    ELSE None

\* rec is the record of obj: '@id' and 'name', and every field key mapped
\* to the value of the last field that carries the key.
IsRecordOf(rec, obj) ==
    /\ DOMAIN rec = {K_id, K_name}
                    \cup {obj.fields[n].key : n \in 1..Len(obj.fields)}
    /\ \A k \in DOMAIN rec :
           LET at == {n \in 1..Len(obj.fields) : obj.fields[n].key = k}
           IN  IF at = {}
               THEN rec[k] = (IF k = K_id THEN obj.id ELSE obj.name)
               ELSE rec[k] = ClaimedValue(
                                obj.fields[CHOOSE n \in at : \A m \in at : m <= n])

----------------------------------------------------------------------------
(* Claims about ListRunsFormatter (checked under SpecDisplay).             *)

\* Positions of the records that lack a key the formatter requires.
LackingRequired ==
    {i \in 1..Len(converted) :
        K_componentParent \notin DOMAIN converted[i]
            \/ K_id \notin DOMAIN converted[i]}

\* Number of rows written: all, or those before the first record that
\* lacks a required key.
RowsWritten ==
    IF LackingRequired = {} THEN Len(converted)
    ELSE (CHOOSE i \in LackingRequired : \A j \in LackingRequired : i <= j) - 1

\* Column col (1-based) of line holds text, padded with blanks or cut to
\* width characters.
ColumnShows(line, col, width, text) ==
    /\ Len(line) >= col + width - 1
    /\ \A n \in 1..width :
           line[col + n - 1] = IF n <= Len(text) THEN text[n] ELSE " "

\* The value shown for key: the record's value, the empty string if absent.
Shown(rec, key) == IF key \in DOMAIN rec THEN rec[key] ELSE <<>>

HeaderWritten ==
    /\ Len(stream) >= 6
    /\ ColumnShows(stream[1], 8, 50, <<"N", "a", "m", "e">>)
    /\ ColumnShows(stream[1], 60, 19,
                   <<"S", "c", "h", "e", "d", "u", "l", "e", "d", " ", "S",
                     "t", "a", "r", "t">>)
    /\ ColumnShows(stream[1], 81, 23, <<"S", "t", "a", "t", "u", "s">>)
    /\ ColumnShows(stream[3], 8, 50, <<"I", "D">>)
    /\ ColumnShows(stream[3], 60, 19, <<"S", "t", "a", "r", "t", "e", "d">>)
    /\ ColumnShows(stream[3], 81, 19, <<"E", "n", "d", "e", "d">>)
    /\ stream[2] = <<"\n">> /\ stream[4] = <<"\n">> /\ stream[6] = <<"\n">>
    /\ Len(stream[5]) = Len(stream[3])
    /\ \A n \in 1..Len(stream[5]) : stream[5][n] = "-"

\* Row k of the table is the two lines of record k, numbered k.
RowWritten(k) ==
    LET first == stream[6 + 4 * (k - 1) + 1]
        second == stream[6 + 4 * (k - 1) + 3]
        rec == converted[k]
    IN  /\ Len(first) = 103 /\ Len(second) = 99
        /\ SubSeq(first, 1, 7) = Spaces(4 - Len(Decimal(k))) \o Decimal(k)
                                     \o <<".", " ", " ">>
        /\ ColumnShows(first, 8, 50, rec[K_componentParent])
        /\ ColumnShows(first, 60, 19, Shown(rec, K_scheduledStartTime))
        /\ ColumnShows(first, 81, 23, Shown(rec, K_status))
        /\ SubSeq(second, 1, 7) = Spaces(7)
        /\ ColumnShows(second, 8, 50, rec[K_id])
        /\ ColumnShows(second, 60, 19, Shown(rec, K_actualStartTime))
        /\ ColumnShows(second, 81, 19, Shown(rec, K_actualEndTime))
        /\ stream[6 + 4 * (k - 1) + 2] = <<"\n">>
        /\ stream[6 + 4 * (k - 1) + 4] = <<"\n", "\n">>

\* C8: display_objects_to_user writes the header and then, for each record
\* in input order, one two-line row numbered with the record's 1-based
\* position; absent @scheduledStartTime, @status, @actualStartTime and
\* @actualEndTime are shown as empty strings without error; a record that
\* lacks @componentParent or @id makes the call fail with KeyError (the
\* rows before it are already written).
C8_DisplayRows ==
    pc # "call" =>
        /\ HeaderWritten
        /\ Len(stream) = 6 + 4 * RowsWritten
        /\ \A k \in 1..RowsWritten : RowWritten(k)
        /\ LackingRequired = {} <=> pc = "returned"
        /\ LackingRequired # {} <=> (pc = "raised" /\ error.type = "KeyError")

\* C8's case: two rows were written, the second for a record that has only
\* the two required keys.
C8_Witness ==
    /\ pc = "returned"
    /\ Len(converted) = 2
    /\ DOMAIN converted[2] = {K_componentParent, K_id}
    /\ K_status \in DOMAIN converted[1]
    /\ Len(stream) = 14

\* C8's failing case: the second record lacks @componentParent, after one
\* row was written.
C8_WitnessMissing ==
    /\ pc = "raised"
    /\ Len(converted) = 2
    /\ K_componentParent \notin DOMAIN converted[2]
    /\ Len(stream) = 10

----------------------------------------------------------------------------
(* Claims about the list-runs invocation (checked under Spec).             *)

\* The eight statuses the specification enumerates.
ClaimedStatuses ==
    { <<"w", "a", "i", "t", "i", "n", "g">>,
      <<"p", "e", "n", "d", "i", "n", "g">>,
      <<"c", "a", "n", "c", "e", "l", "l", "e", "d">>,
      <<"r", "u", "n", "n", "i", "n", "g">>,
      <<"f", "i", "n", "i", "s", "h", "e", "d">>,
      <<"f", "a", "i", "l", "e", "d">>,
      <<"w", "a", "i", "t", "i", "n", "g", "_", "f", "o", "r", "_", "r", "u",
        "n", "n", "e", "r">>,
      <<"w", "a", "i", "t", "i", "n", "g", "_", "o", "n", "_", "d", "e", "p",
        "e", "n", "d", "e", "n", "c", "i", "e", "s">> }

\* The comma-separated tokens of raw as <<first, last>> position pairs: the
\* maximal stretches without a comma (first = last + 1 for an empty token).
TokenSpans(raw) ==
    {sp \in (1..(Len(raw) + 1)) \X (0..Len(raw)) :
        /\ sp[1] <= sp[2] + 1
        /\ sp[1] = 1 \/ raw[sp[1] - 1] = ","
        /\ sp[2] = Len(raw) \/ raw[sp[2] + 1] = ","
        /\ \A i \in sp[1]..sp[2] : raw[i] # ","}

\* t without the whitespace at its two ends.
Stripped(t) ==
    LET inner == {i \in 1..Len(t) : t[i] \notin {" ", "\t", "\n"}}
    IN  IF inner = {} THEN <<>>
        ELSE SubSeq(t, CHOOSE i \in inner : \A j \in inner : i <= j,
                       CHOOSE i \in inner : \A j \in inner : j <= i)

\* The stripped token that starts at position first of raw.
TokenAt(raw, sp) == Stripped(SubSeq(raw, sp[1], sp[2]))

InvalidTokens(raw) ==
    {TokenAt(raw, sp) : sp \in TokenSpans(raw)} \ ClaimedStatuses

StatusGiven == argv.status.t = "str"

SomeTokenInvalid == StatusGiven /\ InvalidTokens(argv.status.v) # {}

CallsOf(op) == {i \in 1..Len(calls) : calls[i].op = op}

\* C1: an invocation whose --status holds an invalid token makes no
\* QueryObjects or DescribeObjects call and never reaches the query,
\* describe or formatting phase: it leaves START only by failing with the
\* invalid-status error.
C1_InvalidStatusBeforeCalls ==
    SomeTokenInvalid =>
        /\ pc \in {"START", "FAILED"}
        /\ pc = "FAILED" => error.type = "ValueError"
        /\ calls = <<>> /\ query = ArgNone /\ stream = <<>>

\* C1's case: the invocation failed for a status whose first token is valid
\* and whose second is not.
C1_Witness ==
    /\ pc = "FAILED"
    /\ error.type = "ValueError"
    /\ argv.status = ArgStr(S_running \o <<",">> \o S_bogus)
    /\ argv.start_interval # ArgNone

\* text occurs in s
Occurs(text, s) ==
    \E i \in 1..(Len(s) - Len(text) + 1) :
        SubSeq(s, i, i + Len(text) - 1) = text

\* The number of commas of raw before position i.
CommasBefore(raw, i) == Cardinality({j \in 1..(i - 1) : raw[j] = ","})

\* C4: status validation accepts a --status argument exactly when each of
\* its comma-separated, whitespace-stripped tokens is one of the eight
\* statuses.  Otherwise it fails with an error whose message names an
\* offending token and every valid status; if it accepts, parsed_args.status
\* is the list of the stripped tokens in input order.
C4_StatusValidation ==
    (pc # "START" /\ StatusGiven) =>
        IF InvalidTokens(argv.status.v) # {}
        THEN /\ pc = "FAILED"
             /\ error.type = "ValueError"
             /\ \E t \in InvalidTokens(argv.status.v) :
                    SubSeq(error.msg, 1, 16 + Len(t) + 1)
                        = <<"I", "n", "v", "a", "l", "i", "d", " ", "s", "t",
                            "a", "t", "u", "s", ":", " ">> \o t \o <<",">>
             /\ \A v \in ClaimedStatuses : Occurs(<<" ">> \o v, error.msg)
        ELSE /\ error.type # "ValueError"
             /\ parsed_args.status.t = "list"
             /\ Len(parsed_args.status.v)
                    = Cardinality(TokenSpans(argv.status.v))
             /\ \A sp \in TokenSpans(argv.status.v) :
                    parsed_args.status.v[CommasBefore(argv.status.v, sp[1]) + 1]
                        = TokenAt(argv.status.v, sp)

\* C4's accepting case: "running, failed" was parsed to its two statuses.
C4_Witness ==
    /\ pc = "ARGS_PARSED"
    /\ argv.status = ArgStr(S_running \o <<",">> \o S_failed_padded)
    /\ parsed_args.status
           = ArgList(<<S_running, <<"f", "a", "i", "l", "e", "d">>>>)

\* C4's rejecting case: the second token is the offending one.
C4_WitnessRejected ==
    /\ pc = "FAILED"
    /\ argv.status = ArgStr(S_failed_padded \o <<",">> \o S_bogus)
    /\ Occurs(S_bogus, error.msg)

\* The window the default selector must span for each value of "now".
ClaimedDefaultWindow ==
    IF current_time = [ordinal |-> 738895, second |-> 0]
    THEN << <<"2", "0", "2", "4", "-", "0", "1", "-", "0", "6", "T", "0", "0",
              ":", "0", "0", ":", "0", "0">>,
            <<"2", "0", "2", "4", "-", "0", "1", "-", "1", "0", "T", "0", "0",
              ":", "0", "0", ":", "0", "0">> >>
    ELSE IF current_time = [ordinal |-> 738947, second |-> 45296]
    THEN << <<"2", "0", "2", "4", "-", "0", "2", "-", "2", "7", "T", "1", "2",
              ":", "3", "4", ":", "5", "6">>,
            <<"2", "0", "2", "4", "-", "0", "3", "-", "0", "2", "T", "1", "2",
              ":", "3", "4", ":", "5", "6">> >>
    ELSE << <<"2", "0", "2", "2", "-", "1", "2", "-", "3", "0", "T", "2", "3",
              ":", "5", "9", ":", "5", "9">>,
            <<"2", "0", "2", "3", "-", "0", "1", "-", "0", "3", "T", "2", "3",
              ":", "5", "9", ":", "5", "9">> >>

Given(arg) == arg.t # "None"

Count(b) == IF b THEN 1 ELSE 0

\* C2: the query build_query returns holds the default selector (BETWEEN on
\* @actualStartTime, [now - 4 days, now]) if and only if neither interval is
\* given, and then no other time selector; otherwise the selectors of the
\* given intervals, @actualStartTime before @scheduleStartTime, each with the
\* caller's two bounds; and last the EQ @status selector with the caller's
\* statuses, present if and only if status is given.
C2_QuerySelectors ==
    query # ArgNone =>
        LET sel == query.selectors
            start == parsed_args.start_interval
            sched == parsed_args.schedule_interval
            status == parsed_args.status
            times == IF Given(start) \/ Given(sched)
                     THEN Count(Given(start)) + Count(Given(sched)) ELSE 1
        IN  /\ Len(sel) = times + Count(Given(status))
            /\ (~Given(start) /\ ~Given(sched)) =>
                   sel[1] = [fieldName |-> F_actualStartTime,
                             operator |-> [type |-> "BETWEEN",
                                           values |-> ClaimedDefaultWindow]]
            /\ Given(start) =>
                   sel[1] = [fieldName |-> F_actualStartTime,
                             operator |-> [type |-> "BETWEEN",
                                           values |-> SubSeq(start.v, 1, 2)]]
            /\ Given(sched) =>
                   sel[times] = [fieldName |-> F_scheduleStartTime,
                                 operator |-> [type |-> "BETWEEN",
                                               values |-> SubSeq(sched.v, 1, 2)]]
            /\ Given(status) =>
                   sel[Len(sel)] = [fieldName |-> F_status,
                                    operator |-> [type |-> "EQ",
                                                  values |-> status.v]]
            /\ ~Given(status) =>
                   \A i \in 1..Len(sel) : sel[i].fieldName # F_status

\* C2's case: both intervals (each a pair) and a status were given.
C2_Witness ==
    /\ query # ArgNone
    /\ Len(query.selectors) = 3
    /\ Len(parsed_args.start_interval.v) = 2
    /\ Len(parsed_args.schedule_interval.v) = 2

\* C2's default case: no interval and no status, one selector.
C2_WitnessDefault ==
    /\ query # ArgNone
    /\ ~Given(parsed_args.start_interval)
    /\ ~Given(parsed_args.schedule_interval)
    /\ Len(query.selectors) = 1
    /\ current_time.second # 0

\* C5: in every query submitted to QueryObjects a BETWEEN selector has
\* exactly 2 values and an EQ selector at least 1.
C5_SelectorArity ==
    \A i \in CallsOf("QueryObjects") :
        \A n \in 1..Len(calls[i].arg.selectors) :
            LET operator == calls[i].arg.selectors[n].operator
            IN  /\ operator.type \in {"BETWEEN", "EQ"}
                /\ operator.type = "BETWEEN" => Len(operator.values) = 2
                /\ operator.type = "EQ" => Len(operator.values) >= 1

\* C5's case: a query was submitted for a start interval of three parts,
\* and with a status.
C5_Witness ==
    /\ CallsOf("QueryObjects") # {}
    /\ argv.start_interval = ArgStr(<<"1", ",", "2", ",", "3">>)
    /\ Given(argv.status)

\* The phase of the specification's state machine the invocation is in: a
\* pending service call belongs to the phase that makes it.
Phase ==
    IF pc = "QUERYING" THEN "ARGS_PARSED"
    ELSE IF pc = "DESCRIBING" THEN "QUERIED"
    ELSE pc

NextPhase ==
    [p \in {"START", "ARGS_PARSED", "QUERIED", "DESCRIBED"} |->
        IF p = "START" THEN "ARGS_PARSED"
        ELSE IF p = "ARGS_PARSED" THEN "QUERIED"
        ELSE IF p = "QUERIED" THEN "DESCRIBED"
        ELSE "FORMATTED"]

CallOrder == <<"QueryObjects", "DescribeObjects", "display_objects_to_user">>

\* What holds in every state of an invocation.
CallsInOrder ==
    /\ Len(calls) <= 3
    /\ \A i \in 1..Len(calls) : calls[i].op = CallOrder[i]
    /\ Len(calls) >= 1 => pc \notin {"START", "ARGS_PARSED"}
    /\ Len(calls) >= 2 =>
           /\ pc \notin {"START", "ARGS_PARSED", "QUERYING", "QUERIED"}
           /\ calls[2].arg = object_ids
    /\ Len(calls) = 3 => pc \in {"FORMATTED", "FAILED"}
    /\ Phase = "FORMATTED" => Len(calls) = 3
    /\ error.type = "ServiceError" =>
           /\ pc = "FAILED"
           /\ stream = <<>>
           /\ Len(calls) = IF error.msg = "QueryObjects" THEN 1 ELSE 2

\* C9: the invocation moves through START, ARGS_PARSED, QUERIED, DESCRIBED,
\* FORMATTED in that order, one phase at a time, or ends in failure; the
\* query call, the describe call and the formatter are each invoked at most
\* once and in that order; the describe call is made only after the query
\* call returned and receives the identifiers it returned; the formatter is
\* invoked only after the describe call returned; a failed query or
\* describe call ends the invocation with no later call and no output.
C9_PhaseOrder ==
    /\ CallsInOrder
    /\ [][/\ CallsInOrder'
          /\ Phase' \in {Phase, "FAILED"}
                 \/ (Phase \in DOMAIN NextPhase /\ Phase' = NextPhase[Phase])
          /\ pc \in {"FAILED", "FORMATTED"} => pc' = pc
          /\ Len(calls') > Len(calls) =>
                 /\ Len(calls') = Len(calls) + 1
                 /\ pc = <<"ARGS_PARSED", "QUERIED", "DESCRIBED">>[Len(calls')]
          /\ object_ids' # object_ids => pc = "QUERYING"
          /\ objects' # objects => pc = "DESCRIBING"]_vars

\* C9's case: an invocation that described two runs reached FORMATTED.
C9_Witness ==
    /\ pc = "FORMATTED"
    /\ Len(calls) = 3
    /\ Len(object_ids) = 2
    /\ Len(stream) = 14

\* C9's failing case: the describe call failed.
C9_WitnessDescribeFails ==
    /\ pc = "FAILED"
    /\ error = ServiceError("DescribeObjects")
    /\ Len(calls) = 2

----------------------------------------------------------------------------
(* Claims about definition translation (checked under SpecTranslate).      *)

\* How often field f occurs in the field list fields.
Occurrences(f, fields) == Cardinality({n \in 1..Len(fields) : fields[n] = f})

SameFieldsUpToOrder(f1, f2) ==
    /\ Len(f1) = Len(f2)
    /\ \A n \in 1..Len(f1) : Occurrences(f1[n], f1) = Occurrences(f1[n], f2)

\* C3: definition_to_api(api_to_definition(X)) equals X up to the order of
\* the fields within each object: the same objects in the same order, the
\* same id and name, the same fields as often as in X.
C3_RoundTrip ==
    "pipelineObjects" \in DOMAIN api_response =>
        LET X == api_response.pipelineObjects
        IN  /\ pc # "raised"
            /\ pc \in {"translated", "submitted"} =>
                   /\ "objects" \in DOMAIN parsed
                   /\ Len(parsed.objects) = Len(X)
            /\ (pc = "submitted" /\ arg_value # ArgNone) =>
                   /\ "pipeline_objects" \in DOMAIN parameters
                   /\ LET Y == parameters.pipeline_objects
                      IN  /\ Len(Y) = Len(X)
                          /\ \A i \in 1..Len(X) :
                                 /\ Y[i].id = X[i].id
                                 /\ Y[i].name = X[i].name
                                 /\ SameFieldsUpToOrder(X[i].fields, Y[i].fields)

\* C3's case: a definition of two objects, one with a repeated key, went
\* through both translations.
C3_Witness ==
    /\ pc = "submitted"
    /\ arg_value # ArgNone
    /\ "pipelineObjects" \in DOMAIN api_response
    /\ Len(api_response.pipelineObjects) = 2
    /\ api_response.pipelineObjects[1].fields = <<F_k_a, F_m_a, F_k_ref_b>>
    /\ parameters.pipeline_objects[1].fields # <<F_k_a, F_m_a, F_k_ref_b>>
    /\ Len(parameters.pipeline_objects[1].fields) = 3

====
